---------------------------- MODULE Spec2Model ----------------------------
(***************************************************************************)
(* A model of mcp-ffmpeg: the MCP tool server (src/mcp-ffmpeg.ts) and the  *)
(* HTTP upload API (server.js with controllers/ffmpegController.js).       *)
(*                                                                         *)
(* The two front-ends are separate processes with no shared state, so each *)
(* has its own specification: McpSpec and HttpSpec.  Every handler keeps   *)
(* its working data in locals of one invocation; the model therefore       *)
(* follows one tool call (resp. one HTTP request) at a time and lets the   *)
(* next one begin when the previous invocation has settled.  The only      *)
(* state that outlives an invocation is the uploads directory.             *)
(***************************************************************************)
EXTENDS Naturals, Sequences, FiniteSets, TLC

\* Longest `resolutions` array a caller passes.
MaxLen == 2
\* Number of uploads multer stores in one run.
MaxUploads == 2

(***************************************************************************)
(* Shared vocabulary                                                       *)
(***************************************************************************)

\* Object.keys(RESOLUTIONS), in insertion order.
RESOLUTIONS == <<"360p", "480p", "720p", "1080p">>

ResolutionNames == {RESOLUTIONS[i] : i \in 1..Len(RESOLUTIONS)}

\* The scale passed to ffmpeg for a resolution.
Dimensions(resolution) ==
    CASE resolution = "360p"  -> [width |-> 640,  height |-> 360]
      [] resolution = "480p"  -> [width |-> 854,  height |-> 480]
      [] resolution = "720p"  -> [width |-> 1280, height |-> 720]
      [] resolution = "1080p" -> [width |-> 1920, height |-> 1080]

\* All sequences over S of length at most n.
SeqsUpTo(S, n) == UNION {[1..k -> S] : k \in 0..n}

None == [kind |-> "none"]

VARIABLES
    disableNotifications, \* process.env.DISABLE_NOTIFICATIONS === 'true'
    call,                 \* the MCP tool call being served
    forwardsRejections,   \* the installed router passes a rejected handler promise to next(err)
    req,                  \* the HTTP request being served
    uploads,              \* files in the uploads directory
    stored                \* uploads stored so far (the unique suffix of the last name)

mcpVars == <<disableNotifications, call>>
httpVars == <<forwardsRejections, req, uploads, stored>>
vars == <<disableNotifications, call, forwardsRejections, req, uploads, stored>>

(***************************************************************************)
(* MCP tool server                                                         *)
(***************************************************************************)

GatedTools == {"resize-video", "extract-audio", "get-video-info"}
Tools == GatedTools \cup {"get-ffmpeg-version"}

\* z.enum(["mp3", "aac", "wav", "ogg"])
McpFormats == {"mp3", "aac", "wav", "ogg"}

IdleCall ==
    [tool |-> "", resolutions |-> <<>>, format |-> "", pc |-> "idle",
     notification |-> None, permitted |-> "pending",
     execLog |-> <<>>, results |-> <<>>, ret |-> None]

\* What the notifier hands to the callback of notifier.notify: an error, or
\* a response string with metadata.activationValue ("" when undefined).
NotifierOutcomes ==
    { [kind |-> "allow",     err |-> FALSE, response |-> "activate",  activationValue |-> "Allow"],
      [kind |-> "deny",      err |-> FALSE, response |-> "closed",    activationValue |-> "Deny"],
      [kind |-> "timeout",   err |-> FALSE, response |-> "timeout",   activationValue |-> ""],
      [kind |-> "dismissed", err |-> FALSE, response |-> "dismissed", activationValue |-> ""],
      [kind |-> "clicked",   err |-> FALSE, response |-> "activate",  activationValue |-> ""],
      [kind |-> "error",     err |-> TRUE,  response |-> "",          activationValue |-> ""] }

\* The value askPermission's callback resolves the promise with.
AskPermissionResolve(outcome) ==
    IF outcome.err
    THEN FALSE
    ELSE LET buttonPressed == IF outcome.activationValue # ""
                              THEN outcome.activationValue
                              ELSE outcome.response
         IN  buttonPressed # "Deny"

PermissionGateOpen(permitted) == TRUE

\* `if (!permitted) return ...`: the handler goes on only when permitted.
PermissionGate(permitted) == permitted = "true"

\* The codec switch of the extract-audio tool.
McpAudioCodec(format) ==
    CASE format = "mp3" -> "libmp3lame"
      [] format = "aac" -> "aac"
      [] format = "wav" -> "pcm_s16le"
      [] format = "ogg" -> "libvorbis"
      [] OTHER          -> "libmp3lame"

Return(c, isError, text) ==
    [c EXCEPT !.pc = "returned",
              !.ret = [kind |-> "result", isError |-> isError, text |-> text]]

Exec(c, command) ==
    [c EXCEPT !.pc = "exec", !.execLog = Append(@, command)]

\* The resize-video loop from the top of an iteration: starts the next
\* ffmpeg command, or formats the results when none is left.
ResizeLoop(c) ==
    LET i == Len(c.results) + 1
    IN  IF i <= Len(c.resolutions)
        THEN Exec(c, [bin |-> "ffmpeg", op |-> "scale",
                      scale |-> Dimensions(c.resolutions[i]),
                      resolution |-> c.resolutions[i]])
        ELSE Return(c, FALSE, "Processed")

\* The handler from the point where askPermission has resolved.
AfterPermission(c) ==
    IF ~PermissionGate(c.permitted)
    THEN Return(c, TRUE, "Permission denied by user")
    ELSE CASE c.tool = "resize-video"  -> ResizeLoop(c)
           [] c.tool = "extract-audio" ->
                Exec(c, [bin |-> "ffmpeg", op |-> "extract",
                         codec |-> McpAudioCodec(c.format), format |-> c.format])
           [] c.tool = "get-video-info" ->
                Exec(c, [bin |-> "ffprobe", op |-> "info"])

\* The handler from the call of askPermission.
AskPermission(c) ==
    IF disableNotifications
    THEN AfterPermission([c EXCEPT !.permitted = "true"])
    ELSE [c EXCEPT !.pc = "notify"]

\* A tool is called.  get-ffmpeg-version runs its command at once; the
\* other tools first await fs.access(absVideoPath).
ToolCall(tool, resolutions, format) ==
    /\ call.pc \in {"idle", "returned"}
    /\ LET c == [IdleCall EXCEPT !.tool = tool, !.resolutions = resolutions,
                                 !.format = format]
       IN  call' = IF tool = "get-ffmpeg-version"
                   THEN Exec(c, [bin |-> "ffmpeg", op |-> "version"])
                   ELSE [c EXCEPT !.pc = "accessVideo"]
    /\ UNCHANGED <<disableNotifications, httpVars>>

\* fs.access(absVideoPath) settles.
AccessVideo(ok) ==
    /\ call.pc = "accessVideo"
    /\ call' = IF ~ok
               THEN Return(call, TRUE, "Error: Video file not found")
               ELSE IF call.tool = "get-video-info"
                    THEN AskPermission(call)
                    ELSE [call EXCEPT !.pc = "accessOutDir"]
    /\ UNCHANGED <<disableNotifications, httpVars>>

\* fs.access(outputDirectory, W_OK) settles.
AccessOutDir(ok) ==
    /\ call.pc = "accessOutDir"
    /\ call' = IF ~ok
               THEN Return(call, TRUE, "Error: Output directory not writable")
               ELSE AskPermission(call)
    /\ UNCHANGED <<disableNotifications, httpVars>>

\* The notifier calls back; askPermission resolves and the handler goes on.
NotifierCallback(outcome) ==
    /\ call.pc = "notify"
    /\ call' = AfterPermission(
                 [call EXCEPT !.notification = outcome,
                              !.permitted = IF AskPermissionResolve(outcome)
                                            THEN "true" ELSE "false"])
    /\ UNCHANGED <<disableNotifications, httpVars>>

\* execAsync settles (ok: exit status 0; for ffprobe also parseable JSON).
ExecSettled(ok) ==
    /\ call.pc = "exec"
    /\ call' =
         CASE call.tool = "get-ffmpeg-version" ->
                IF ok THEN Return(call, FALSE, "FFmpeg Version")
                      ELSE Return(call, TRUE, "Error getting FFmpeg version")
           [] call.tool = "resize-video" ->
                ResizeLoop([call EXCEPT !.results = Append(@,
                    [resolution |-> call.resolutions[Len(call.results) + 1],
                     success |-> ok])])
           [] call.tool = "extract-audio" ->
                IF ok THEN Return(call, FALSE, "Successfully extracted audio")
                      ELSE Return(call, TRUE, "Error extracting audio")
           [] call.tool = "get-video-info" ->
                IF ok THEN Return(call, FALSE, "Video Information")
                      ELSE Return(call, TRUE, "Error getting video information")
    /\ UNCHANGED <<disableNotifications, httpVars>>

McpNext ==
    \/ \E tool \in Tools, resolutions \in SeqsUpTo(ResolutionNames, MaxLen),
          format \in McpFormats :
          /\ tool # "resize-video" => resolutions = <<>>
          /\ tool # "extract-audio" => format = "mp3"
          /\ ToolCall(tool, resolutions, format)
    \/ \E ok \in BOOLEAN : AccessVideo(ok)
    \/ \E ok \in BOOLEAN : AccessOutDir(ok)
    \/ \E outcome \in NotifierOutcomes : NotifierCallback(outcome)
    \/ \E ok \in BOOLEAN : ExecSettled(ok)

\* C1: for resize-video, extract-audio and get-video-info, a command has
\* been executed in a call only if askPermission resolved true in that call;
\* when it resolved false the call has returned isError with the text
\* "Permission denied by user" and has executed nothing.
C1_PermissionBeforeExec ==
    call.tool \in GatedTools =>
        /\ call.execLog # <<>> => call.permitted = "true"
        /\ call.permitted = "false" =>
              /\ call.execLog = <<>>
              /\ call.pc = "returned"
              /\ call.ret = [kind |-> "result", isError |-> TRUE,
                             text |-> "Permission denied by user"]

\* A resize-video call that the user allowed in the notification and that
\* has started its second ffmpeg command.
C1_Witness ==
    /\ call.tool = "resize-video"
    /\ ~disableNotifications
    /\ call.notification.kind = "allow"
    /\ Len(call.execLog) = 2

\* C2: with notifications enabled, askPermission resolves true only if the
\* user chose 'Allow'; the Deny button, a timeout, a dismissal and a notifier
\* error all resolve false.
C2_ExplicitApproval ==
    (~disableNotifications /\ call.permitted # "pending") =>
        (call.permitted = "true" <=> call.notification.kind = "allow")

(***************************************************************************)
(* HTTP upload API                                                         *)
(***************************************************************************)

\* Extensions of the uploaded file's original name.
OriginalExts == {".mp4", ".txt"}

\* multer's fileFilter: /\.(mp4|avi|mov|wmv|flv|mkv)$/ on the original name.
FileFilter(ext) == ext \in {".mp4", ".avi", ".mov", ".wmv", ".flv", ".mkv"}

\* multer's filename callback: uniqueSuffix + path.extname(originalname).
\* The suffix is unique per upload; the model numbers the uploads.
UploadFilename(now, ext) == [base |-> ToString(now), ext |-> ext]

\* The name of a stored upload in the uploads directory.
FileName(file) == file.base \o file.ext

\* path.parse(req.file.filename).name: the name without its extension.
PathParseName(file) == file.base

\* Strings a client puts in the `resolutions` array: known names and an
\* unknown one.
RequestedNames == {"360p", "720p", "4k"}

\* The `resolutions` form field: absent (or empty), text that is not JSON,
\* JSON that is not an array, or a JSON array of strings.
ResolutionFields ==
    { [kind |-> "absent", items |-> <<>>],
      [kind |-> "malformed", items |-> <<>>],
      [kind |-> "scalar", items |-> <<>>] }
    \cup { [kind |-> "array", items |-> s] :
             s \in SeqsUpTo(RequestedNames, MaxLen) }

\* The `format` form field; "" when absent.
FormatFields == {"", "mp3", "aac", "wav", "ogg", "flac", "MP3"}

Response(status, text) ==
    [status |-> status, text |-> text, validOptions |-> <<>>, files |-> <<>>]

DefaultResolutionsShort == <<"360p", "480p", "720p">>

\* Object.keys(RESOLUTIONS), used when the field is absent.
DefaultResolutions == RESOLUTIONS

IsResolution(res) == res \in ResolutionNames

ValidResolutionsUnfiltered(resolutions) == resolutions

\* resolutions.filter(res => Object.keys(RESOLUTIONS).includes(res))
ValidResolutions(resolutions) == SelectSeq(resolutions, IsResolution)

PromiseAnyFulfilled(jobs) == \E i \in 1..Len(jobs) : jobs[i].state = "end"

\* Promise.all(processingPromises) fulfils when every job has resolved.
PromiseAllFulfilled(jobs) == \A i \in 1..Len(jobs) : jobs[i].state = "end"

\* Promise.all has rejected: some job has rejected.
PromiseAllRejected(jobs) == \E i \in 1..Len(jobs) : jobs[i].state = "error"

\* One promise of processingPromises: ffmpeg is started for a known
\* resolution; destructuring RESOLUTIONS[resolution] throws for any other,
\* which rejects the promise at once.
ResizeJob(file, resolution) ==
    IF IsResolution(resolution)
    THEN [resolution |-> resolution, size |-> Dimensions(resolution),
          filename |-> PathParseName(file) \o "_" \o resolution \o ".mp4",
          started |-> TRUE, state |-> "running"]
    ELSE [resolution |-> resolution, size |-> [width |-> 0, height |-> 0],
          filename |-> "", started |-> FALSE, state |-> "error"]

EffectiveFormatAac(format) == IF format = "" THEN "aac" ELSE format

\* req.body.format || 'mp3'
EffectiveFormat(format) == IF format = "" THEN "mp3" ELSE format

\* validFormats of extractAudio
ValidFormats == <<"mp3", "aac", "wav", "ogg">>

IsValidFormat(format) == \E i \in 1..Len(ValidFormats) : ValidFormats[i] = format

\* The argument of .audioCodec(...) in extractAudio.
HttpAudioCodec(format) ==
    IF format = "mp3" THEN "libmp3lame"
    ELSE IF format = "aac" THEN "aac"
    ELSE format

\* outputFilename of extractAudio
AudioFilename(file, format) == PathParseName(file) \o "." \o format

\* No request received yet.
IdleRequest ==
    [route |-> "", file |-> None,
     body |-> [resolutions |-> [kind |-> "absent", items |-> <<>>], format |-> ""],
     pc |-> "idle", reached |-> FALSE, format |-> "",
     jobs |-> <<>>, outputFiles |-> <<>>, responses |-> <<>>]

NewRequest(route, file, body) ==
    [IdleRequest EXCEPT !.route = route, !.file = file, !.body = body,
                        !.pc = "handler"]

Respond(r, response) ==
    [r EXCEPT !.pc = "done", !.responses = Append(@, response)]

\* A request arrives and upload.single('video') handles its body.
\*   upload = "none":   no file part, req.file stays undefined
\*   upload = "file":   a file part, filtered and stored by multer
Receive(route, upload, ext, resolutions, format) ==
    /\ req.pc \in {"idle", "done"}
    /\ LET body == [resolutions |-> resolutions, format |-> format]
           file == UploadFilename(stored + 1, ext)
       IN  CASE upload = "none" ->
                  /\ req' = NewRequest(route, None, body)
                  /\ UNCHANGED <<uploads, stored>>
             [] upload = "file" /\ ~FileFilter(ext) ->
                  \* cb(new Error(...)) goes to the error handling middleware
                  /\ req' = Respond(NewRequest(route, None, body),
                                    Response(500, "Only video files are allowed!"))
                  /\ UNCHANGED <<uploads, stored>>
             [] upload = "file" /\ FileFilter(ext) ->
                  /\ stored < MaxUploads
                  /\ stored' = stored + 1
                  /\ req' = NewRequest(route, file, body)
                  /\ uploads' = uploads \cup {FileName(file)}
    /\ UNCHANGED <<forwardsRejections, mcpVars>>

\* exports.resizeVideo up to `await Promise.all(processingPromises)`.
ResizeVideo ==
    /\ req.pc = "handler" /\ req.route = "resize"
    /\ LET r == [req EXCEPT !.reached = TRUE]
           field == req.body.resolutions
           resolutions == IF field.kind = "absent" THEN DefaultResolutions
                          ELSE field.items
           validResolutions == ValidResolutions(resolutions)
           jobs == [i \in 1..Len(validResolutions) |->
                       ResizeJob(req.file, validResolutions[i])]
       IN  req' =
             IF req.file = None
             THEN Respond(r, Response(400, "No video file uploaded"))
             ELSE IF field.kind = "malformed"
             THEN Respond(r, Response(500, "JSON.parse: SyntaxError"))
             ELSE IF field.kind = "scalar"
             THEN Respond(r, Response(500, "resolutions.filter is not a function"))
             ELSE IF Len(validResolutions) = 0
             THEN Respond(r, [Response(400, "No valid resolutions specified")
                                EXCEPT !.validOptions = RESOLUTIONS])
             ELSE IF PromiseAllRejected(jobs)
             THEN Respond([r EXCEPT !.jobs = jobs],
                          Response(500, "Cannot destructure undefined"))
             ELSE [r EXCEPT !.jobs = jobs, !.pc = "await"]
    /\ UNCHANGED <<forwardsRejections, uploads, stored, mcpVars>>

\* ffmpeg emits 'end' for job i of a resize request; when this settles
\* Promise.all the handler resumes and sends the 200 response.
ResizeJobEnd(i) ==
    /\ req.route = "resize"
    /\ i \in 1..Len(req.jobs)
    /\ req.jobs[i].state = "running"
    /\ LET r == [req EXCEPT
                   !.jobs[i].state = "end",
                   !.outputFiles = Append(@,
                       [resolution |-> req.jobs[i].resolution,
                        filename |-> req.jobs[i].filename,
                        path |-> "/output/" \o req.jobs[i].filename])]
       IN  req' = IF req.pc = "await" /\ PromiseAllFulfilled(r.jobs)
                  THEN Respond(r, [Response(200, "Video processing completed")
                                     EXCEPT !.files = r.outputFiles])
                  ELSE r
    /\ UNCHANGED <<forwardsRejections, uploads, stored, mcpVars>>

\* ffmpeg emits 'error' for job i of a resize request; the first rejection
\* rejects Promise.all and the catch block sends the 500 response.
ResizeJobError(i) ==
    /\ req.route = "resize"
    /\ i \in 1..Len(req.jobs)
    /\ req.jobs[i].state = "running"
    /\ LET r == [req EXCEPT !.jobs[i].state = "error"]
       IN  req' = IF req.pc = "await"
                  THEN Respond(r, Response(500, "ffmpeg error"))
                  ELSE r
    /\ UNCHANGED <<forwardsRejections, uploads, stored, mcpVars>>

\* exports.extractAudio up to the returned promise.
ExtractAudio ==
    /\ req.pc = "handler" /\ req.route = "extract-audio"
    /\ LET r == [req EXCEPT !.reached = TRUE]
           format == EffectiveFormat(req.body.format)
       IN  req' =
             IF req.file = None
             THEN Respond(r, Response(400, "No video file uploaded"))
             ELSE IF ~IsValidFormat(format)
             THEN Respond(r, [Response(400, "Invalid audio format")
                                EXCEPT !.validOptions = ValidFormats])
             ELSE [r EXCEPT !.format = format, !.pc = "await",
                            !.jobs = << [codec |-> HttpAudioCodec(format),
                                         filename |-> AudioFilename(req.file, format),
                                         started |-> TRUE, state |-> "running"] >>]
    /\ UNCHANGED <<forwardsRejections, uploads, stored, mcpVars>>

\* ffmpeg emits 'end' for an extract-audio request.
ExtractJobEnd ==
    /\ req.route = "extract-audio" /\ req.pc = "await"
    /\ req' = Respond([req EXCEPT !.jobs[1].state = "end"],
                      [Response(200, "Audio extraction completed")
                         EXCEPT !.files = << [format |-> req.format,
                                              filename |-> req.jobs[1].filename,
                                              path |-> "/output/" \o req.jobs[1].filename] >>])
    /\ UNCHANGED <<forwardsRejections, uploads, stored, mcpVars>>

\* ffmpeg emits 'error' for an extract-audio request: reject(err) rejects
\* the promise the handler returned without awaiting it, so the handler's
\* catch block does not run.  A router that watches the returned promise
\* passes err to the error handling middleware; one that ignores the
\* handler's return value sends nothing.
ExtractJobError ==
    /\ req.route = "extract-audio" /\ req.pc = "await"
    /\ LET r == [req EXCEPT !.jobs[1].state = "error"]
       IN  req' = IF forwardsRejections
                  THEN Respond(r, Response(500, "ffmpeg error"))
                  ELSE [r EXCEPT !.pc = "done"]
    /\ UNCHANGED <<forwardsRejections, uploads, stored, mcpVars>>

\* The steps the server takes on its own: handlers and ffmpeg events.
HttpServerNext ==
    \/ ResizeVideo
    \/ \E i \in 1..Len(RESOLUTIONS) : ResizeJobEnd(i)
    \/ \E i \in 1..Len(RESOLUTIONS) : ResizeJobError(i)
    \/ ExtractAudio
    \/ ExtractJobEnd
    \/ ExtractJobError

HttpNext ==
    \/ \E upload \in {"none", "file"}, ext \in OriginalExts,
          resolutions \in ResolutionFields :
          /\ upload = "none" => ext = ".mp4"
          /\ Receive("resize", upload, ext, resolutions, "")
    \/ \E upload \in {"none", "file"}, ext \in OriginalExts,
          format \in FormatFields :
          /\ upload = "none" => ext = ".mp4"
          /\ Receive("extract-audio", upload, ext,
                     [kind |-> "absent", items |-> <<>>], format)
    \/ HttpServerNext

(***************************************************************************)
(* Claims about the HTTP upload API                                        *)
(***************************************************************************)

\* Number of entries of seq whose resolution is name.
CountOf(seq, name) ==
    Cardinality({i \in 1..Len(seq) : seq[i].resolution = name})

\* Number of occurrences of name in a sequence of strings.
Occurrences(seq, name) == Cardinality({i \in 1..Len(seq) : seq[i] = name})

FourResolutions == {"360p", "480p", "720p", "1080p"}

\* A resize request with an uploaded file that the handler has taken up.
ResizeTaken ==
    req.route = "resize" /\ req.reached /\ req.file # None

\* C3: POST /api/resize with a file and no `resolutions` field starts ffmpeg
\* exactly once for each of 360p, 480p, 720p and 1080p, and a 200 response
\* lists exactly four files, one per resolution.
C3_DefaultAllResolutions ==
    (ResizeTaken /\ req.body.resolutions.kind = "absent") =>
        /\ Len(req.jobs) = 4
        /\ \A i \in 1..Len(req.jobs) : req.jobs[i].started
        /\ \A name \in FourResolutions : CountOf(req.jobs, name) = 1
        /\ \A k \in 1..Len(req.responses) :
              req.responses[k].status = 200 =>
                 /\ Len(req.responses[k].files) = 4
                 /\ \A name \in FourResolutions :
                       CountOf(req.responses[k].files, name) = 1

\* A request without the field answered 200 after all four runs ended.
C3_Witness ==
    /\ ResizeTaken /\ req.body.resolutions.kind = "absent"
    /\ Len(req.responses) = 1 /\ req.responses[1].status = 200
    /\ Len(req.responses[1].files) = 4

\* C4: POST /api/resize starts ffmpeg only for requested resolutions among
\* 360p, 480p, 720p and 1080p, one run per such entry of the array; an array
\* with no such entry is answered 400 'No valid resolutions specified' with
\* the valid options, and starts no ffmpeg run.
C4_OnlyValidResolutions ==
    req.route = "resize" =>
        /\ \A i \in 1..Len(req.jobs) :
              req.jobs[i].started => req.jobs[i].resolution \in FourResolutions
        /\ (ResizeTaken /\ req.body.resolutions.kind = "array") =>
              LET items == req.body.resolutions.items
                  Known(x) == x \in FourResolutions
                  kept == SelectSeq(items, Known)
              IN  /\ [i \in 1..Len(req.jobs) |-> req.jobs[i].resolution] = kept
                  /\ kept = <<>> =>
                        req.responses =
                           << [status |-> 400,
                               text |-> "No valid resolutions specified",
                               validOptions |-> <<"360p", "480p", "720p", "1080p">>,
                               files |-> <<>>] >>

\* An array holding only an unknown name was answered 400.
C4_Witness ==
    /\ ResizeTaken
    /\ req.body.resolutions = [kind |-> "array", items |-> <<"4k">>]
    /\ Len(req.responses) = 1 /\ req.responses[1].status = 400

\* C5: POST /api/extract-audio takes 'mp3' when no format is given, accepts
\* exactly mp3, aac, wav and ogg, answers any other format with 400 'Invalid
\* audio format' and the valid options without starting ffmpeg, and names
\* the output <upload-name>.<format>.
C5_ExtractAudioFormat ==
    (req.route = "extract-audio" /\ req.reached /\ req.file # None) =>
        LET f == IF req.body.format = "" THEN "mp3" ELSE req.body.format
        IN  IF f \in {"mp3", "aac", "wav", "ogg"}
            THEN /\ Len(req.jobs) = 1
                 /\ req.jobs[1].started
                 /\ req.format = f
                 /\ req.jobs[1].filename = req.file.base \o "." \o f
            ELSE /\ req.jobs = <<>>
                 /\ req.responses =
                       << [status |-> 400, text |-> "Invalid audio format",
                           validOptions |-> <<"mp3", "aac", "wav", "ogg">>,
                           files |-> <<>>] >>

\* A request without a format field was answered 200 with an .mp3 file.
C5_Witness ==
    /\ req.route = "extract-audio" /\ req.file # None /\ req.body.format = ""
    /\ Len(req.responses) = 1 /\ req.responses[1].status = 200
    /\ req.responses[1].files[1].filename = req.file.base \o ".mp3"

\* C6: resizeVideo sends the 200 response only after every job it started
\* has emitted 'end', and the files of that response hold exactly one entry
\* per job: the same multiset of resolutions as the validated request list,
\* whatever the order of completion.
C6_AllEndBefore200 ==
    req.route = "resize" =>
        \A k \in 1..Len(req.responses) :
            req.responses[k].status = 200 =>
               LET files == req.responses[k].files
                   field == req.body.resolutions
                   requested == IF field.kind = "absent"
                                THEN <<"360p", "480p", "720p", "1080p">>
                                ELSE field.items
               IN  /\ req.jobs # <<>>
                   /\ \A i \in 1..Len(req.jobs) : req.jobs[i].state = "end"
                   /\ Len(files) = Len(req.jobs)
                   /\ \A name \in FourResolutions :
                         /\ CountOf(files, name) = CountOf(req.jobs, name)
                         /\ CountOf(files, name) = Occurrences(requested, name)

\* A 200 response whose files are in the order of completion, which is not
\* the order of the request.
C6_Witness ==
    /\ req.route = "resize"
    /\ req.body.resolutions = [kind |-> "array", items |-> <<"360p", "720p">>]
    /\ Len(req.responses) = 1 /\ req.responses[1].status = 200
    /\ req.responses[1].files[1].resolution = "720p"
    /\ req.responses[1].files[2].resolution = "360p"

\* Names multer can give to an upload.
UploadNames ==
    {FileName(UploadFilename(n, ext)) : n \in 1..MaxUploads, ext \in OriginalExts}

\* C7: a file an HTTP request wrote to uploads is eventually removed once
\* the request has been answered.
C7_UploadsRemoved ==
    \A f \in UploadNames :
        (/\ req.pc = "done" /\ req.responses # <<>>
         /\ req.file # None /\ FileName(req.file) = f
         /\ f \in uploads)
            ~> (f \notin uploads)

\* C8: an extract-audio request that reached the handler gets exactly one
\* response: 400 without a file or with an invalid format, 200 'Audio
\* extraction completed' on ffmpeg's 'end', 500 on ffmpeg's 'error'.
C8_ExactlyOneResponse ==
    (req.route = "extract-audio" /\ req.reached /\ req.pc = "done") =>
        /\ Len(req.responses) = 1
        /\ req.responses[1].status =
              IF req.jobs = <<>> THEN 400
              ELSE IF req.jobs[1].state = "end" THEN 200
              ELSE 500

\* C9: the codec the HTTP handler passes to ffmpeg for a format is the one
\* the MCP extract-audio tool chooses for it: mp3 -> libmp3lame, aac -> aac,
\* wav -> pcm_s16le, ogg -> libvorbis.
C9_SameCodec ==
    (req.route = "extract-audio" /\ req.jobs # <<>>) =>
        /\ req.jobs[1].codec = McpAudioCodec(req.format)
        /\ req.jobs[1].codec =
              CASE req.format = "mp3" -> "libmp3lame"
                [] req.format = "aac" -> "aac"
                [] req.format = "wav" -> "pcm_s16le"
                [] req.format = "ogg" -> "libvorbis"

Init ==
    /\ disableNotifications \in BOOLEAN
    /\ call = IdleCall
    /\ forwardsRejections \in BOOLEAN
    /\ req = IdleRequest
    /\ uploads = {}
    /\ stored = 0

McpSpec == Init /\ [][McpNext]_vars

HttpSpec == Init /\ [][HttpNext]_vars

\* Every ffmpeg run ends or fails, the event loop runs every handler that is
\* ready, and clients keep sending requests.
HttpFairSpec == HttpSpec /\ WF_vars(HttpServerNext) /\ WF_vars(HttpNext)

=============================================================================
